---- MODULE Spec2Model ----
(***************************************************************************)
(* Model of Bio/Phylo/Applications/_IQtree.py: the IQTreeCommandline       *)
(* option table, its checker functions, and the construct / validate /     *)
(* render / execute lifecycle of one command-line invocation.              *)
(*                                                                         *)
(* Python strings are sequences of one-character strings, so that          *)
(* str.isdigit, float(), the `in` operator on strings and the rendering    *)
(* of a value into a token are computed character by character.            *)
(* The base class AbstractCommandline and the _Option / _Switch classes    *)
(* come from Bio.Application, which is not part of the sources modelled    *)
(* here; their behaviour follows the design document.                      *)
(***************************************************************************)
EXTENDS Integers, Sequences, FiniteSets, TLC

(***************************************************************************)
(* Bounds of the model.                                                    *)
(***************************************************************************)
\* longest string drawn over Alphabet for a probed value
MaxStrLen == 2
\* integers -1 .. MaxInt are drawn as integer values
MaxInt == 2
\* most keyword arguments of one construction drawn from CoreArgs
MaxArgs == 3

(***************************************************************************)
(* Python values: int, bool, float (in tenths), str, None.                 *)
(***************************************************************************)
PyInt(k) == [t |-> "int", n |-> k, s |-> <<>>]

PyBool(b) == [t |-> "bool", n |-> IF b THEN 1 ELSE 0, s |-> <<>>]

PyFloat(tenths) == [t |-> "float", n |-> tenths, s |-> <<>>]

PyStr(chars) == [t |-> "str", n |-> 0, s |-> chars]

PyNone == [t |-> "none", n |-> 0, s |-> <<>>]

\* bool(x)
Truthy(x) ==
    CASE x.t = "str" -> Len(x.s) > 0
      [] x.t = "none" -> FALSE
      [] OTHER -> x.n # 0

Digits == {"0", "1", "2", "3", "4", "5", "6", "7", "8", "9"}

Whitespace == {" "}

\* str.isdigit(): non-empty and every character a digit
IsDigit(chars) == Len(chars) > 0 /\ \A i \in 1..Len(chars) : chars[i] \in Digits

\* a in b for two strings: a is a contiguous substring of b
Contains(b, a) ==
    \E i \in 0..(Len(b) - Len(a)) : SubSeq(b, i + 1, i + Len(a)) = a

RECURSIVE Lower(_)
Lower(chars) ==
    IF chars = <<>> THEN <<>>
    ELSE LET c == Head(chars)
             l == CASE c = "I" -> "i" [] c = "N" -> "n" [] c = "F" -> "f"
                    [] c = "A" -> "a" [] c = "T" -> "t" [] c = "Y" -> "y"
                    [] OTHER -> c
         IN <<l>> \o Lower(Tail(chars))

RECURSIVE Strip(_)
Strip(chars) ==
    IF chars = <<>> THEN <<>>
    ELSE IF Head(chars) \in Whitespace THEN Strip(Tail(chars))
    ELSE IF chars[Len(chars)] \in Whitespace THEN Strip(SubSeq(chars, 1, Len(chars) - 1))
    ELSE chars

\* digits, single underscores allowed between digits
DigitPart(chars) ==
    /\ Len(chars) > 0
    /\ chars[1] \in Digits
    /\ chars[Len(chars)] \in Digits
    /\ \A i \in 1..Len(chars) : chars[i] \in Digits \cup {"_"}
    /\ \A i \in 1..(Len(chars) - 1) : ~(chars[i] = "_" /\ chars[i + 1] = "_")

Exponent(chars) ==
    \/ chars = <<>>
    \/ /\ Len(chars) >= 2
       /\ chars[1] \in {"e", "E"}
       /\ LET r == Tail(chars)
              d == IF r[1] \in {"+", "-"} THEN Tail(r) ELSE r
          IN DigitPart(d)

\* the literal after whitespace and sign are removed
Unsigned(chars) ==
    \/ Lower(chars) \in {<<"i","n","f">>, <<"n","a","n">>,
                         <<"i","n","f","i","n","i","t","y">>}
    \/ \E i \in 0..Len(chars), j \in 0..Len(chars) :
          /\ i <= j
          /\ LET ip == SubSeq(chars, 1, i)
                 rest == SubSeq(chars, i + 1, j)
                 ex == SubSeq(chars, j + 1, Len(chars))
             IN /\ (ip = <<>> \/ DigitPart(ip))
                /\ \/ rest = <<>> /\ ip # <<>>
                   \/ /\ rest # <<>>
                      /\ rest[1] = "."
                      /\ (Tail(rest) = <<>> \/ DigitPart(Tail(rest)))
                      /\ (ip # <<>> \/ Tail(rest) # <<>>)
                /\ Exponent(ex)

\* float(x) on a string succeeds
ParsesAsFloat(chars) ==
    LET st == Strip(chars)
        u == IF st # <<>> /\ st[1] \in {"+", "-"} THEN Tail(st) ELSE st
    IN Unsigned(u)

(***************************************************************************)
(* The module-level checker functions.                                     *)
(* A checker call yields "pass", "fail", or the name of the exception it   *)
(* raises.                                                                 *)
(***************************************************************************)
\* isinstance(x, int): bool is a subclass of int
IsInstanceInt(x) == x.t \in {"int", "bool"}

\* x.isdigit(): only str has the method
IsDigitCall(x) == IF x.t = "str" THEN (IF IsDigit(x.s) THEN "pass" ELSE "fail")
                  ELSE "AttributeError"

_is_int(x) == IF IsInstanceInt(x) THEN "pass" ELSE IsDigitCall(x)

_is_number(x) ==
    CASE x.t \in {"int", "bool", "float"} -> "pass"
      [] x.t = "str" -> IF ParsesAsFloat(x.s) THEN "pass" ELSE "fail"
      [] OTHER -> "TypeError"

(***************************************************************************)
(* Checker functions attached to descriptors in the option table.          *)
(***************************************************************************)
Checker(f, c, w, l, h) == [fn |-> f, choices |-> c, word |-> w, lo |-> l, hi |-> h]

\* checker_function = lambda x: x in (<tuple of strings>)
InTuple(S) == Checker("in_tuple", S, <<>>, 0, 0)

\* checker_function = lambda x: isinstance(x, int) or x.isdigit() or x in ("WORD")
\* ("WORD") is a parenthesised string, not a tuple
IntOrDigitOrIn(w) == Checker("int_or_digit_or_in_str", {}, w, 0, 0)

\* checker_function = _is_int
IsIntChecker == Checker("_is_int", {}, <<>>, 0, 0)

\* checker_function = _is_number
IsNumberChecker == Checker("_is_number", {}, <<>>, 0, 0)

\* checker_function = lambda x: True if (x in range(lo, hi)) else False
InRange(l, h) == Checker("in_range", {}, <<>>, l, h)

\* checker_function = lambda x: True if filename else (x in (<tuple>))
\* `filename` is a free name of the lambda: no local or global binds it
FilenameGuard(S) == Checker("filename_guard", S, <<>>, 0, 0)

\* checker_function = True
NotCallable == Checker("True", {}, <<>>, 0, 0)

\* filename = lambda ...: a function object, which is truthy
LambdaObject == TRUE

\* the result of calling a descriptor's checker_function on x
CallChecker(chk, x) ==
    CASE chk.fn = "in_tuple" ->
           IF x.t = "str" /\ x.s \in chk.choices THEN "pass" ELSE "fail"
      [] chk.fn = "int_or_digit_or_in_str" ->
           IF IsInstanceInt(x) THEN "pass"
           ELSE IF IsDigitCall(x) # "fail" THEN IsDigitCall(x)
           ELSE IF Contains(chk.word, x.s) THEN "pass" ELSE "fail"
      [] chk.fn = "_is_int" -> _is_int(x)
      [] chk.fn = "_is_number" -> _is_number(x)
      [] chk.fn = "in_range" ->
           IF x.t \in {"int", "bool"} /\ x.n \in chk.lo..(chk.hi - 1) THEN "pass"
           ELSE IF x.t = "float" /\ x.n % 10 = 0 /\ (x.n \div 10) \in chk.lo..(chk.hi - 1)
                THEN "pass"
           ELSE "fail"
      [] chk.fn = "filename_guard" -> "NameError"
      [] chk.fn = "True" -> "TypeError"

(***************************************************************************)
(* Bio.Application._Option and _Switch: the descriptor records.            *)
(***************************************************************************)
DefaultFilename == FALSE

DefaultChecker == Checker("None", {}, <<>>, 0, 0)

DefaultRequired == FALSE

DefaultEquate == TRUE

Option(flag, name, filename, checker, required, eq) ==
    [cls |-> "_Option", flag |-> flag, name |-> name, is_filename |-> filename,
     checker_function |-> checker, is_required |-> required, equate |-> eq]

Switch(flag, name) ==
    [cls |-> "_Switch", flag |-> flag, name |-> name, is_filename |-> FALSE,
     checker_function |-> DefaultChecker, is_required |-> FALSE, equate |-> FALSE]

(***************************************************************************)
(* The option table of IQTreeCommandline.__init__.                         *)
(***************************************************************************)
\* d_specify without is_required = True
d_specify_NotRequired ==
    Option(<<"-", "s">>, "specify",
           TRUE, DefaultChecker, DefaultRequired,
           FALSE)

\* lines 56-64
d_specify ==
    Option(<<"-", "s">>, "specify",
           TRUE, DefaultChecker, TRUE,
           FALSE)

\* d_sequencetype without its checker_function
d_sequencetype_Unchecked ==
    Option(<<"-", "s", "t">>, "sequencetype",
           DefaultFilename, DefaultChecker, DefaultRequired,
           FALSE)

\* lines 65-78
d_sequencetype ==
    Option(<<"-", "s", "t">>, "sequencetype",
           DefaultFilename, InTuple({<<"D", "N", "A">>, <<"A", "A">>, <<"B", "I", "N">>, <<"M", "O", "R", "P", "H">>, <<"C", "O", "D", "O", "N">>, <<"N", "T", "2", "A", "A">>, <<"D", "N", "A", "-", "t", "o", "-", "A", "A">>}), DefaultRequired,
           FALSE)

\* lines 79-90
d_tree ==
    Option(<<"-", "t">>, "tree",
           LambdaObject, FilenameGuard({<<"B", "I", "O", "N", "J">>, <<"R", "A", "N", "D", "O", "M">>, <<"P", "A", "R", "S">>, <<"P", "L", "L", "P", "A", "R", "S">>}), DefaultRequired,
           FALSE)

\* lines 91-102
d_usertree ==
    Option(<<"-", "t", "e">>, "usertree",
           LambdaObject, FilenameGuard({<<"B", "I", "O", "N", "J">>, <<"R", "A", "N", "D", "O", "M">>, <<"P", "A", "R", "S">>, <<"P", "L", "L", "P", "A", "R", "S">>}), DefaultRequired,
           FALSE)

\* lines 103-111
d_outgroup ==
    Option(<<"-", "o">>, "outgroup",
           DefaultFilename, DefaultChecker, DefaultRequired,
           FALSE)

\* lines 112-120
d_prefix ==
    Option(<<"-", "p", "r", "e">>, "prefix",
           DefaultFilename, DefaultChecker, DefaultRequired,
           FALSE)

\* d_nt without equate = False
d_nt_DefaultEquate ==
    Option(<<"-", "n", "t">>, "nt",
           DefaultFilename, IntOrDigitOrIn(<<"A", "U", "T", "O">>), DefaultRequired,
           DefaultEquate)

\* lines 121-129
d_nt ==
    Option(<<"-", "n", "t">>, "nt",
           DefaultFilename, IntOrDigitOrIn(<<"A", "U", "T", "O">>), DefaultRequired,
           FALSE)

\* lines 130-137
d_ntmax ==
    Option(<<"-", "n", "t", "m", "a", "x">>, "ntmax",
           DefaultFilename, IntOrDigitOrIn(<<"A", "U", "T", "O">>), DefaultRequired,
           FALSE)

\* lines 138-143
d_verbose ==
    Switch(<<"-", "v">>, "verbose")

\* lines 144-149
d_quiet ==
    Switch(<<"-", "q", "u", "i", "e", "t">>, "quiet")

\* lines 150-156
d_keep ==
    Switch(<<"-", "k", "e", "e", "p", "-", "i", "d", "e", "n", "t">>, "keep")

\* d_safe declared as an _Option instead of a _Switch
d_safe_AsOption ==
    Option(<<"-", "s", "a", "f", "e">>, "safe",
           DefaultFilename, DefaultChecker, DefaultRequired,
           FALSE)

\* lines 157-163
d_safe ==
    Switch(<<"-", "s", "a", "f", "e">>, "safe")

\* lines 164-175
d_memory ==
    Option(<<"-", "m", "e", "m">>, "memory",
           DefaultFilename, DefaultChecker, DefaultRequired,
           FALSE)

\* lines 176-182
d_redo ==
    Switch(<<"-", "r", "e", "d", "o">>, "redo")

\* lines 183-191
d_checkpoint_interval ==
    Option(<<"-", "c", "p", "t", "i", "m", "e">>, "checkpoint_interval",
           DefaultFilename, IsIntChecker, DefaultRequired,
           FALSE)

\* lines 195-202
d_lmap ==
    Option(<<"-", "l", "m", "a", "p">>, "lmap",
           DefaultFilename, IntOrDigitOrIn(<<"A", "L", "L">>), DefaultRequired,
           FALSE)

\* lines 203-209
d_taxon_clusters ==
    Option(<<"-", "l", "m", "c", "l", "u", "s", "t">>, "taxon_clusters",
           TRUE, DefaultChecker, DefaultRequired,
           FALSE)

\* lines 210-214
d_wql ==
    Switch(<<"-", "w", "q", "l">>, "wql")

\* lines 215-227
d_n ==
    Option(<<"-", "n">>, "n",
           DefaultFilename, IsIntChecker, DefaultRequired,
           FALSE)

\* lines 231-272
d_model ==
    Option(<<"-", "m">>, "model",
           DefaultFilename, DefaultChecker, DefaultRequired,
           FALSE)

\* lines 273-283
d_rcluster ==
    Option(<<"-", "r", "c", "l", "u", "s", "t", "e", "r">>, "rcluster",
           DefaultFilename, IsIntChecker, DefaultRequired,
           FALSE)

\* lines 284-290
d_rclusterf ==
    Option(<<"-", "r", "c", "l", "u", "s", "t", "e", "r", "f">>, "rclusterf",
           DefaultFilename, IsIntChecker, DefaultRequired,
           FALSE)

\* lines 291-299
d_rcluster_max ==
    Option(<<"-", "r", "c", "l", "u", "s", "t", "e", "r", "-", "m", "a", "x">>, "rcluster-max",
           DefaultFilename, IsIntChecker, DefaultRequired,
           FALSE)

\* lines 300-312
d_mset ==
    Option(<<"-", "m", "s", "e", "t">>, "mset",
           DefaultFilename, DefaultChecker, DefaultRequired,
           FALSE)

\* lines 313-320
d_msub ==
    Option(<<"-", "m", "s", "u", "b">>, "msub",
           DefaultFilename, InTuple({<<"n", "u", "c", "l", "e", "a", "r">>, <<"m", "i", "t", "o", "c", "h", "o", "n", "d", "r", "i", "a", "l">>, <<"c", "h", "l", "o", "r", "o", "p", "l", "a", "s", "t">>, <<"v", "i", "r", "a", "l">>}), DefaultRequired,
           FALSE)

\* lines 321-329
d_mfreq ==
    Option(<<"-", "m", "f", "r", "e", "q">>, "mfreq",
           DefaultFilename, DefaultChecker, DefaultRequired,
           FALSE)

\* lines 330-338
d_mrate ==
    Option(<<"-", "m", "r", "a", "t", "e">>, "mrate",
           DefaultFilename, DefaultChecker, DefaultRequired,
           FALSE)

\* lines 339-346
d_cmin ==
    Option(<<"-", "c", "m", "i", "n">>, "cmin",
           DefaultFilename, DefaultChecker, DefaultRequired,
           FALSE)

\* lines 347-355
d_cmax ==
    Option(<<"-", "c", "m", "a", "x">>, "cmax",
           DefaultFilename, DefaultChecker, DefaultRequired,
           FALSE)

\* lines 356-365
d_merit ==
    Option(<<"-", "m", "e", "r", "i", "t">>, "merit",
           DefaultFilename, InTuple({<<"A", "I", "C">>, <<"A", "I", "C", "c">>, <<"B", "I", "C">>}), DefaultRequired,
           FALSE)

\* lines 366-373
d_mtree ==
    Switch(<<"-", "m", "t", "r", "e", "e">>, "mtree")

\* lines 374-380
d_mredo ==
    Switch(<<"-", "m", "r", "e", "d", "o">>, "mredo")

\* lines 381-389
d_madd ==
    Option(<<"-", "m", "a", "d", "d">>, "madd",
           DefaultFilename, DefaultChecker, DefaultRequired,
           FALSE)

\* lines 390-396
d_mdef ==
    Option(<<"-", "m", "d", "e", "f">>, "mdef",
           TRUE, DefaultChecker, DefaultRequired,
           FALSE)

\* lines 397-401
d_mwopt ==
    Switch(<<"-", "m", "w", "o", "p", "t">>, "mwopt")

\* lines 402-407
d_a ==
    Option(<<"-", "a">>, "a",
           DefaultFilename, DefaultChecker, DefaultRequired,
           FALSE)

\* lines 408-414
d_amin ==
    Option(<<"-", "a", "m", "i", "n">>, "amin",
           DefaultFilename, IsNumberChecker, DefaultRequired,
           FALSE)

\* lines 415-419
d_gmedian ==
    Switch(<<"-", "g", "m", "e", "d", "i", "a", "n">>, "gmedian")

\* lines 420-425
d_i ==
    Option(<<"-", "i">>, "i",
           DefaultFilename, DefaultChecker, DefaultRequired,
           FALSE)

\* lines 426-430
d_optgammainv ==
    Switch(<<"-", "-", "o", "p", "t", "-", "g", "a", "m", "m", "a", "-", "i", "n", "v">>, "optgammainv")

\* lines 431-435
d_wsr ==
    Switch(<<"-", "w", "s", "r">>, "wsr")

\* lines 436-439
d_mh ==
    Switch(<<"-", "m", "h">>, "mh")

\* lines 443-450
d_q ==
    Option(<<"-", "q">>, "q",
           TRUE, DefaultChecker, DefaultRequired,
           FALSE)

\* lines 451-458
d_spp ==
    Option(<<"-", "s", "p", "p">>, "spp",
           TRUE, DefaultChecker, DefaultRequired,
           FALSE)

\* lines 459-467
d_spp_2 ==
    Option(<<"-", "s", "p", "p">>, "spp",
           TRUE, DefaultChecker, DefaultRequired,
           FALSE)

\* lines 468-474
d_ft ==
    Option(<<"-", "f", "t">>, "ft",
           TRUE, DefaultChecker, DefaultRequired,
           FALSE)

\* lines 475-483
d_fs ==
    Option(<<"-", "f", "s">>, "fs",
           TRUE, DefaultChecker, DefaultRequired,
           FALSE)

\* lines 484-489
d_fmax ==
    Switch(<<"-", "f", "m", "a", "x">>, "fmax")

\* lines 493-501
d_allnni ==
    Switch(<<"-", "a", "l", "l", "n", "n", "i">>, "allnni")

\* lines 502-505
d_djc ==
    Switch(<<"-", "d", "j", "c">>, "djc")

\* lines 506-512
d_fast ==
    Switch(<<"-", "f", "a", "s", "t">>, "fast")

\* lines 513-520
d_g ==
    Option(<<"-", "g">>, "g",
           TRUE, DefaultChecker, DefaultRequired,
           FALSE)

\* lines 521-531
d_ninit ==
    Option(<<"-", "n", "i", "n", "i", "t">>, "ninit",
           DefaultFilename, IsIntChecker, DefaultRequired,
           FALSE)

\* lines 532-541
d_ntop ==
    Option(<<"-", "n", "t", "o", "p">>, "ntop",
           DefaultFilename, IsIntChecker, DefaultRequired,
           FALSE)

\* lines 542-550
d_nbest ==
    Option(<<"-", "n", "b", "e", "s", "t">>, "nbest",
           DefaultFilename, IsIntChecker, DefaultRequired,
           FALSE)

\* lines 551-559
d_nstop ==
    Option(<<"-", "n", "s", "t", "o", "p">>, "nstop",
           DefaultFilename, IsIntChecker, DefaultRequired,
           FALSE)

\* lines 560-568
d_pers ==
    Option(<<"-", "p", "e", "r", "s">>, "pers",
           DefaultFilename, InRange(0, 1), DefaultRequired,
           FALSE)

\* lines 569-577
d_sprrad ==
    Option(<<"-", "s", "p", "r", "r", "a", "d">>, "sprrad",
           DefaultFilename, DefaultChecker, DefaultRequired,
           FALSE)

\* lines 582-587
d_bb ==
    Option(<<"-", "b", "b">>, "bb",
           DefaultFilename, IsNumberChecker, DefaultRequired,
           DefaultEquate)

\* lines 588-596
d_bcor ==
    Option(<<"-", "b", "c", "o", "r">>, "bcor",
           DefaultFilename, IsNumberChecker, DefaultRequired,
           FALSE)

\* lines 597-605
d_beps ==
    Option(<<"-", "b", "e", "p", "s">>, "beps",
           DefaultFilename, IsNumberChecker, DefaultRequired,
           FALSE)

\* lines 606-614
d_bnni ==
    Switch(<<"-", "b", "n", "n", "i">>, "bnni")

\* lines 615-625
d_bsam ==
    Option(<<"-", "b", "s", "a", "m">>, "bsam",
           DefaultFilename, InTuple({<<"G", "E", "N", "E">>, <<"G", "E", "N", "E", "S", "I", "T", "E">>}), DefaultRequired,
           FALSE)

\* lines 626-634
d_nm ==
    Option(<<"-", "n", "m">>, "nm",
           DefaultFilename, IsIntChecker, DefaultRequired,
           FALSE)

\* lines 635-643
d_nstep ==
    Option(<<"-", "n", "s", "t", "e", "p">>, "nstep",
           DefaultFilename, IsIntChecker, DefaultRequired,
           FALSE)

\* lines 644-650
d_wbt ==
    Switch(<<"-", "w", "b", "t">>, "wbt")

\* lines 651-654
d_wbtl ==
    Switch(<<"-", "w", "b", "t", "l">>, "wbtl")

\* lines 658-666
d_b ==
    Option(<<"-", "b">>, "b",
           DefaultFilename, IsIntChecker, DefaultRequired,
           FALSE)

\* lines 667-672
d_bs ==
    Option(<<"-", "b", "s">>, "bs",
           DefaultFilename, IsIntChecker, DefaultRequired,
           FALSE)

\* lines 673-680
d_bo ==
    Option(<<"-", "b", "o">>, "bo",
           DefaultFilename, NotCallable, DefaultRequired,
           FALSE)

\* lines 684-693
d_alrt ==
    Option(<<"-", "a", "l", "r", "t">>, "alrt",
           DefaultFilename, IsIntChecker, DefaultRequired,
           FALSE)

\* lines 694-697
d_abayes ==
    Switch(<<"-", "a", "b", "a", "y", "e", "s">>, "abayes")

\* lines 698-704
d_lbp ==
    Option(<<"-", "l", "b", "p">>, "lbp",
           DefaultFilename, IsIntChecker, DefaultRequired,
           FALSE)

\* lines 708-713
d_asr ==
    Switch(<<"-", "a", "s", "r">>, "asr")

\* lines 714-722
d_asr_min ==
    Option(<<"-", "a", "s", "r", "-", "m", "i", "n">>, "asr-min",
           DefaultFilename, IsNumberChecker, DefaultRequired,
           FALSE)

\* self.parameters, in declaration order
parameters ==
    <<d_specify, d_sequencetype, d_tree, d_usertree, d_outgroup,
      d_prefix, d_nt, d_ntmax, d_verbose, d_quiet,
      d_keep, d_safe, d_memory, d_redo, d_checkpoint_interval,
      d_lmap, d_taxon_clusters, d_wql, d_n, d_model,
      d_rcluster, d_rclusterf, d_rcluster_max, d_mset, d_msub,
      d_mfreq, d_mrate, d_cmin, d_cmax, d_merit,
      d_mtree, d_mredo, d_madd, d_mdef, d_mwopt,
      d_a, d_amin, d_gmedian, d_i, d_optgammainv,
      d_wsr, d_mh, d_q, d_spp, d_spp_2,
      d_ft, d_fs, d_fmax, d_allnni, d_djc,
      d_fast, d_g, d_ninit, d_ntop, d_nbest,
      d_nstop, d_pers, d_sprrad, d_bb, d_bcor,
      d_beps, d_bnni, d_bsam, d_nm, d_nstep,
      d_wbt, d_wbtl, d_b, d_bs, d_bo,
      d_alrt, d_abayes, d_lbp, d_asr, d_asr_min>>

(***************************************************************************)
(* State of one invocation.                                                *)
(***************************************************************************)
VARIABLES
    pc,           \* Unbuilt, Validated, Rendered, Executed, Completed, Failed
    kwargs,       \* the keyword arguments, in the order supplied
    params,       \* the value of every descriptor that is set, by position in the table
    tokens,       \* the rendered token sequence
    error,        \* the error of a failed invocation
    runnerCalls,  \* how often the process runner was invoked
    exitCode,     \* exit status of the completed subprocess
    trace         \* the lifecycle states entered so far

vars == <<pc, kwargs, params, tokens, error, runnerCalls, exitCode, trace>>


(***************************************************************************)
(* Bio.Application.AbstractCommandline: parameter state, validation and    *)
(* rendering of one invocation.                                            *)
(***************************************************************************)
\* def __init__(self, cmd="iqtree", **kwargs)
DefaultCmd == <<"i", "q", "t", "r", "e", "e">>

NoError == [kind |-> "none", name |-> ""]

Err(k, nm) == [kind |-> k, name |-> nm]

\* no descriptor is set: the mapping from positions to values is empty
Unset == <<>>

\* the descriptors of table tbl that a keyword names
Matches(tbl, name) == {i \in DOMAIN tbl : tbl[i].name = name}

\* the validator contract: a failing predicate is a value error naming the
\* descriptor, an exception of the predicate propagates
CheckValue(x, name, chk) ==
    IF chk.fn = "None" THEN NoError
    ELSE LET r == CallChecker(chk, x)
         IN CASE r = "pass" -> NoError
              [] r = "fail" -> Err("InvalidValue", name)
              [] OTHER -> Err(r, name)

\* one keyword value: a switch is set when the value is truthy, an option is
\* validated and stored; a keyword matching no descriptor is an error
SetParameter(tbl, st, name, x) ==
    LET m == Matches(tbl, name)
        bad == {i \in m : /\ tbl[i].cls = "_Option"
                          /\ CheckValue(x, name, tbl[i].checker_function) # NoError}
        off == {i \in m : tbl[i].cls = "_Switch" /\ ~Truthy(x)}
    IN IF m = {} THEN [err |-> Err("UnknownOption", name), st |-> st]
       ELSE IF bad # {}
       THEN LET i == CHOOSE i \in bad : \A j \in bad : i <= j
            IN [err |-> CheckValue(x, name, tbl[i].checker_function), st |-> st]
       ELSE [err |-> NoError,
             st |-> [i \in ((DOMAIN st) \cup m) \ off |->
                       IF i \notin m THEN st[i]
                       ELSE IF tbl[i].cls = "_Switch" THEN PyNone ELSE x]]

\* the keyword arguments, taken in the order supplied; the first error stops
RECURSIVE SetParameters(_, _, _)
SetParameters(tbl, st, kw) ==
    IF kw = <<>> THEN [err |-> NoError, st |-> st]
    ELSE LET r == SetParameter(tbl, st, Head(kw).name, Head(kw).value)
         IN IF r.err # NoError THEN r ELSE SetParameters(tbl, r.st, Tail(kw))

\* a required descriptor without a value
Validate(tbl, st) ==
    LET missing == {i \in DOMAIN tbl : tbl[i].is_required /\ i \notin DOMAIN st}
    IN IF missing = {} THEN NoError
       ELSE Err("MissingRequiredValue",
                tbl[CHOOSE i \in missing : \A j \in missing : i <= j].name)

\* str(n) for a natural number
RECURSIVE NatToChars(_)
NatToChars(k) ==
    LET d == <<"0", "1", "2", "3", "4", "5", "6", "7", "8", "9">>[(k % 10) + 1]
    IN IF k < 10 THEN <<d>> ELSE NatToChars(k \div 10) \o <<d>>

IntToChars(k) == IF k < 0 THEN <<"-">> \o NatToChars(-k) ELSE NatToChars(k)

\* str(x)
ToStr(x) ==
    CASE x.t = "str" -> x.s
      [] x.t = "int" -> IntToChars(x.n)
      [] x.t = "bool" -> IF x.n = 1 THEN <<"T", "r", "u", "e">>
                         ELSE <<"F", "a", "l", "s", "e">>
      [] x.t = "float" ->
           (IF x.n < 0 THEN <<"-">> ELSE <<>>)
             \o NatToChars((IF x.n < 0 THEN -x.n ELSE x.n) \div 10) \o <<".">>
             \o NatToChars((IF x.n < 0 THEN -x.n ELSE x.n) % 10)
      [] OTHER -> <<"N", "o", "n", "e">>

\* a path with a space is quoted, unless it is quoted already
EscapeFilename(chars) ==
    IF ~Contains(chars, <<" ">>) THEN chars
    ELSE IF Len(chars) >= 2 /\ chars[1] = "\"" /\ chars[Len(chars)] = "\"" THEN chars
    ELSE <<"\"">> \o chars \o <<"\"">>

\* the tokens one set descriptor contributes
DescriptorTokens(p, x) ==
    IF p.cls = "_Switch" THEN <<p.flag>>
    ELSE IF x = PyNone THEN <<p.flag>>
    ELSE LET v == IF p.is_filename THEN EscapeFilename(ToStr(x)) ELSE ToStr(x)
         IN IF p.equate THEN <<p.flag \o <<"=">> \o v>> ELSE <<p.flag, v>>

RECURSIVE TokensFrom(_, _, _)

\* TokensFrom emitting the later descriptors first
TokensFrom_Reversed(tbl, st, i) ==
    IF i > Len(tbl) THEN <<>>
    ELSE TokensFrom(tbl, st, i + 1)
           \o (IF i \in DOMAIN st THEN DescriptorTokens(tbl[i], st[i]) ELSE <<>>)

\* the tokens of descriptors i.. of the table, in declaration order
TokensFrom(tbl, st, i) ==
    IF i > Len(tbl) THEN <<>>
    ELSE (IF i \in DOMAIN st THEN DescriptorTokens(tbl[i], st[i]) ELSE <<>>)
           \o TokensFrom(tbl, st, i + 1)

\* the flat token sequence of the command
CommandTokens(tbl, cmd, st) == <<EscapeFilename(cmd)>> \o TokensFrom(tbl, st, 1)

(***************************************************************************)
(* Inputs: the keyword arguments of one construction.                      *)
(***************************************************************************)
Arg(nm, x) == [name |-> nm, value |-> x]

Alphabet == {"A", "U", "1", "."}

FreeStrings == UNION {[1..k -> Alphabet] : k \in 0..MaxStrLen}

Substrings(w) == {SubSeq(w, i, j) : i \in 1..(Len(w) + 1), j \in 0..Len(w)}

TableChoices == UNION {parameters[i].checker_function.choices : i \in DOMAIN parameters}

TableWords == {parameters[i].checker_function.word : i \in DOMAIN parameters}

NamedStrings ==
    {<<"a","l","i","g","n",".","p","h","y">>, <<"m","y"," ","f","i","l","e">>,
     <<"P","R","O","T","E","I","N">>, <<"T","E","S","T","O","N","L","Y">>,
     <<"G","T","R","+","G">>, <<"1","0","0","0">>, <<"0",".","5">>, <<"0">>,
     <<"1","e","3">>, <<"-","5">>, <<"n","a","n">>, <<" ","7">>, <<"a","u","t","o">>,
     <<"a","b","c">>}

ProbeStrings ==
    FreeStrings \cup NamedStrings \cup TableChoices
      \cup UNION {Substrings(w) : w \in TableWords}

ProbeValues ==
    {PyStr(c) : c \in ProbeStrings} \cup {PyInt(k) : k \in (-1)..MaxInt}
      \cup {PyInt(1000), PyBool(TRUE), PyBool(FALSE), PyFloat(0), PyFloat(5), PyFloat(10)}

\* the keyword of the class docstring's example, which names no descriptor
UnknownKeyword == "Specify"

Keywords == {parameters[i].name : i \in DOMAIN parameters} \cup {UnknownKeyword}

SpecifyArg == Arg("specify", PyStr(<<"a","l","i","g","n",".","p","h","y">>))

\* one probed keyword, alone or after the required input
KwargsProbe ==
    UNION {{<<Arg(nm, x)>>} \cup (IF nm = "specify" THEN {} ELSE {<<SpecifyArg, Arg(nm, x)>>})
             : nm \in Keywords, x \in ProbeValues}

CoreArgs ==
    {SpecifyArg,
     Arg("model", PyStr(<<"T","E","S","T","O","N","L","Y">>)),
     Arg("nt", PyStr(<<"A","U","T","O">>)),
     Arg("bb", PyInt(1000)),
     Arg("prefix", PyStr(<<"o","u","t">>)),
     Arg("sequencetype", PyStr(<<"D","N","A">>)),
     Arg("safe", PyBool(TRUE)),
     Arg("safe", PyBool(FALSE))}

\* a keyword appears at most once among keyword arguments
DistinctNames(kw) == \A i, j \in DOMAIN kw : i # j => kw[i].name # kw[j].name

KwargsCore ==
    {kw \in UNION {[1..k -> CoreArgs] : k \in 0..MaxArgs} : DistinctNames(kw)}

ExitCodes == {0, 1}

(***************************************************************************)
(* The invocation as a state machine.                                      *)
(***************************************************************************)
Init ==
    /\ pc = "Unbuilt"
    /\ kwargs \in KwargsCore \cup KwargsProbe
    /\ params = Unset
    /\ tokens = <<>>
    /\ error = NoError
    /\ runnerCalls = 0
    /\ exitCode = -1
    /\ trace = <<"Unbuilt">>

\* IQTreeCommandline(**kwargs): set every keyword value, then validate
Construct ==
    /\ pc = "Unbuilt"
    /\ LET tbl == parameters
           r == SetParameters(tbl, params, kwargs)
           e == IF r.err # NoError THEN r.err ELSE Validate(tbl, r.st)
       IN /\ params' = r.st
          /\ error' = e
          /\ pc' = IF e = NoError THEN "Validated" ELSE "Failed"
    /\ trace' = Append(trace, pc')
    /\ UNCHANGED <<kwargs, tokens, runnerCalls, exitCode>>

\* render the validated invocation as tokens
Render ==
    /\ pc = "Validated"
    /\ tokens' = CommandTokens(parameters, DefaultCmd, params)
    /\ pc' = "Rendered"
    /\ trace' = Append(trace, pc')
    /\ UNCHANGED <<kwargs, params, error, runnerCalls, exitCode>>

\* Execute without waiting for the tokens to be rendered
Execute_Unrendered ==
    /\ pc \in {"Validated", "Rendered"}
    /\ runnerCalls' = runnerCalls + 1
    /\ pc' = "Executed"
    /\ trace' = Append(trace, pc')
    /\ UNCHANGED <<kwargs, params, tokens, error, exitCode>>

\* hand the tokens to the process runner
Execute ==
    /\ pc = "Rendered"
    /\ runnerCalls' = runnerCalls + 1
    /\ pc' = "Executed"
    /\ trace' = Append(trace, pc')
    /\ UNCHANGED <<kwargs, params, tokens, error, exitCode>>

\* the subprocess ran and returned its exit status
Complete ==
    /\ pc = "Executed"
    /\ \E code \in ExitCodes : exitCode' = code
    /\ pc' = "Completed"
    /\ trace' = Append(trace, pc')
    /\ UNCHANGED <<kwargs, params, tokens, error, runnerCalls>>

\* the external binary could not be launched
SpawnFailure ==
    /\ pc = "Executed"
    /\ error' = Err("ProcessSpawnFailure", "")
    /\ pc' = "Failed"
    /\ trace' = Append(trace, pc')
    /\ UNCHANGED <<kwargs, params, tokens, runnerCalls, exitCode>>

Next == Construct \/ Render \/ Execute \/ Complete \/ SpawnFailure

Spec == Init /\ [][Next]_vars

TypeOK ==
    /\ pc \in {"Unbuilt", "Validated", "Rendered", "Executed", "Completed", "Failed"}
    /\ runnerCalls \in 0..1
    /\ exitCode \in ExitCodes \cup {-1}

(***************************************************************************)
(* Vocabulary of the properties.                                           *)
(***************************************************************************)
Built == pc # "Unbuilt"

\* tokens have been rendered
HasTokens == "Rendered" \in {trace[k] : k \in DOMAIN trace}

Supplied(nm) == \E k \in DOMAIN kwargs : kwargs[k].name = nm

\* the keyword argument alone would be accepted
ArgAccepted(a) == SetParameter(parameters, Unset, a.name, a.value).err = NoError

\* no keyword argument before position k is rejected
EarlierAccepted(k) == \A j \in 1..(k - 1) : ArgAccepted(kwargs[j])

\* construction failed with a value error naming nm
Rejected(nm) == pc = "Failed" /\ error = Err("InvalidValue", nm)

\* construction did not fail on keyword nm
Passed(nm) == ~(pc = "Failed" /\ runnerCalls = 0 /\ error.name = nm)

Count(seq, tok) == Cardinality({k \in DOMAIN seq : seq[k] = tok})

\* what the parameters render to when the keyword arguments kw are supplied
TokensOf(kw) == CommandTokens(parameters, DefaultCmd, SetParameters(parameters, Unset, kw).st)

Without(seq, k) == SubSeq(seq, 1, k - 1) \o SubSeq(seq, k + 1, Len(seq))

SequenceTypeCodes ==
    {<<"D","N","A">>, <<"A","A">>, <<"B","I","N">>, <<"M","O","R","P","H">>,
     <<"C","O","D","O","N">>, <<"N","T","2","A","A">>,
     <<"D","N","A","-","t","o","-","A","A">>}

ModelSelectionKeywords ==
    {<<"T","E","S","T","O","N","L","Y">>, <<"T","E","S","T">>,
     <<"T","E","S","T","N","E","W","O","N","L","Y">>, <<"M","F">>,
     <<"T","E","S","T","N","E","W">>, <<"M","F","P">>,
     <<"L","M">>, <<"L","M","R","Y">>, <<"L","M","W","S">>, <<"L","M","M","K">>,
     <<"L","M","S","S">>,
     <<"T","E","S","T","M","E","R","G","E","O","N","L","Y">>,
     <<"T","E","S","T","M","E","R","G","E">>,
     <<"T","E","S","T","N","E","W","M","E","R","G","E","O","N","L","Y">>,
     <<"T","E","S","T","N","E","W","M","E","R","G","E">>}

MeritCriteria == {<<"A","I","C">>, <<"A","I","C","c">>, <<"B","I","C">>}

AAModelSources ==
    {<<"n","u","c","l","e","a","r">>,
     <<"m","i","t","o","c","h","o","n","d","r","i","a","l">>,
     <<"c","h","l","o","r","o","p","l","a","s","t">>, <<"v","i","r","a","l">>}

ResamplingStrategies == {<<"G","E","N","E">>, <<"G","E","N","E","S","I","T","E">>}

Enumeration(nm) ==
    CASE nm = "sequencetype" -> SequenceTypeCodes
      [] nm = "model" -> ModelSelectionKeywords
      [] nm = "merit" -> MeritCriteria
      [] nm = "msub" -> AAModelSources
      [] nm = "bsam" -> ResamplingStrategies

InEnumeration(nm, x) == x.t = "str" /\ x.s \in Enumeration(nm)

\* once built, keyword k of an enumerated-choice descriptor was rejected with
\* InvalidValue if its value is outside the enumeration, and passed otherwise
EnumerationEnforced(nm) ==
    \A k \in DOMAIN kwargs :
        (Built /\ kwargs[k].name = nm /\ EarlierAccepted(k)) =>
            IF InEnumeration(nm, kwargs[k].value) THEN Passed(nm) ELSE Rejected(nm)

\* C2 (as stated): every enumerated-choice descriptor, `model` included,
\* rejects every value outside its enumeration with InvalidValue and accepts
\* every value inside it.
C2_AsStated ==
    \A nm \in {"sequencetype", "model", "merit", "msub", "bsam"} : EnumerationEnforced(nm)

\* C2 (amended): sequencetype, merit, msub and bsam reject every value outside
\* their enumeration with InvalidValue and accept every value inside it;
\* `model` carries no validator and every supplied value passes.
C2_EnumeratedChoices ==
    /\ \A nm \in {"sequencetype", "merit", "msub", "bsam"} : EnumerationEnforced(nm)
    /\ Passed("model")

C2_Witness ==
    /\ \E k \in DOMAIN kwargs :
          kwargs[k] = Arg("sequencetype", PyStr(<<"P","R","O","T","E","I","N">>))
    /\ Rejected("sequencetype")

(***************************************************************************)
(* Integer and numeric descriptors.                                        *)
(***************************************************************************)
IntegerDescriptors ==
    {parameters[i].name : i \in {j \in DOMAIN parameters :
                                    parameters[j].checker_function.fn = "_is_int"}}

NumericDescriptors ==
    {parameters[i].name : i \in {j \in DOMAIN parameters :
                                    parameters[j].checker_function.fn = "_is_number"}}
      \cup {"pers"}

\* C3 (as stated): on an integer or numeric descriptor every non-numeric
\* string fails validation, every digit string passes, every float-parseable
\* string passes on a numeric descriptor, and integers end in pass or fail.
C3_AsStated ==
    \A k \in DOMAIN kwargs :
        LET nm == kwargs[k].name
            x == kwargs[k].value
        IN (Built /\ EarlierAccepted(k) /\ nm \in IntegerDescriptors \cup NumericDescriptors) =>
              /\ (x.t = "str" /\ ~ParsesAsFloat(x.s)) => Rejected(nm)
              /\ (x.t = "str" /\ IsDigit(x.s)) => Passed(nm)
              /\ (x.t = "str" /\ ParsesAsFloat(x.s) /\ nm \in NumericDescriptors)
                    => Passed(nm)
              /\ x.t = "int" => (Passed(nm) \/ Rejected(nm))

(***************************************************************************)
(* nt, ntmax and lmap: an integer, a digit string or a keyword.            *)
(***************************************************************************)
KeywordOf(nm) ==
    CASE nm \in {"nt", "ntmax"} -> <<"A","U","T","O">>
      [] nm = "lmap" -> <<"A","L","L">>

\* C4 (as stated): nt, ntmax and lmap accept exactly an integer, a string of
\* decimal digits or their keyword; every other string is rejected.
C4_AsStated ==
    \A k \in DOMAIN kwargs :
        LET nm == kwargs[k].name
            x == kwargs[k].value
        IN (Built /\ EarlierAccepted(k) /\ nm \in {"nt", "ntmax", "lmap"}
              /\ x.t \in {"int", "str"}) =>
              IF x.t = "int" \/ IsDigit(x.s) \/ x.s = KeywordOf(nm)
              THEN Passed(nm) ELSE Rejected(nm)

(***************************************************************************)
(* Switches.                                                               *)
(***************************************************************************)
DocumentedSwitches == {"verbose", "quiet", "keep", "safe", "redo"}

SwitchNames ==
    DocumentedSwitches
      \cup {parameters[i].name : i \in {j \in DOMAIN parameters :
                                            parameters[j].cls = "_Switch"}}

FlagsOf(nm) == {parameters[i].flag : i \in Matches(parameters, nm)}

\* C5: In the rendered tokens a switch whose value is truthy is exactly one
\* bare flag token: removing that token gives the rendering without the
\* switch, so no value token accompanies it.  A switch whose value is falsy,
\* or that was never supplied, contributes no token at all.
C5_SwitchRendering ==
    HasTokens =>
        \A nm \in SwitchNames : \A f \in FlagsOf(nm) :
            /\ ~Supplied(nm) => Count(tokens, f) = 0
            /\ \A k \in DOMAIN kwargs :
                  kwargs[k].name = nm =>
                      IF Truthy(kwargs[k].value)
                      THEN /\ Count(tokens, f) = 1
                           /\ \E t \in DOMAIN tokens :
                                 /\ tokens[t] = f
                                 /\ Without(tokens, t) = TokensOf(Without(kwargs, k))
                      ELSE /\ Count(tokens, f) = 0
                           /\ tokens = TokensOf(Without(kwargs, k))

C5_Witness ==
    /\ HasTokens
    /\ \E k \in DOMAIN kwargs : kwargs[k] = Arg("safe", PyBool(TRUE))
    /\ Count(tokens, <<"-","s","a","f","e">>) = 1

C5_WitnessFalsy ==
    /\ HasTokens
    /\ \E k \in DOMAIN kwargs : kwargs[k] = Arg("safe", PyBool(FALSE))
    /\ Count(tokens, <<"-","s","a","f","e">>) = 0

(***************************************************************************)
(* Order of the rendered tokens.                                           *)
(***************************************************************************)
Perms(kw) == {p \in [DOMAIN kw -> DOMAIN kw] : \A i, j \in DOMAIN kw : i # j => p[i] # p[j]}

Permuted(kw, p) == [i \in DOMAIN kw |-> kw[p[i]]]

StartsWith(tok, pre) == Len(tok) >= Len(pre) /\ SubSeq(tok, 1, Len(pre)) = pre

\* the token is the flag f, alone or joined with a value
IsFlag(tok, f) == tok = f \/ StartsWith(tok, f \o <<"=">>)

TableFlags == {parameters[i].flag : i \in DOMAIN parameters}

IsFlagToken(tok) == \E f \in TableFlags : IsFlag(tok, f)

\* the flags in the rendered tokens, in the order rendered
RenderedFlags ==
    LET ft == SelectSeq(tokens, IsFlagToken)
    IN [k \in DOMAIN ft |-> CHOOSE f \in TableFlags : IsFlag(ft[k], f)]

IsSetIndex(i) == i \in DOMAIN params

\* the flags of the descriptors that hold a value, in declaration order
DeclaredFlags ==
    LET ix == SelectSeq([i \in DOMAIN parameters |-> i], IsSetIndex)
    IN [k \in DOMAIN ix |-> parameters[ix[k]].flag]

Chars_iqtree == <<"i","q","t","r","e","e">>

Chars_align_phy == <<"a","l","i","g","n",".","p","h","y">>

Chars_TESTONLY == <<"T","E","S","T","O","N","L","Y">>

Chars_AUTO == <<"A","U","T","O">>

ScenarioArgs ==
    {SpecifyArg, Arg("model", PyStr(Chars_TESTONLY)), Arg("nt", PyStr(Chars_AUTO))}

IsScenario == Len(kwargs) = 3 /\ {kwargs[k] : k \in DOMAIN kwargs} = ScenarioArgs

\* the flag f is at some position directly followed by the value v
PairAt(f, v) == {k \in 1..(Len(tokens) - 1) : tokens[k] = f /\ tokens[k + 1] = v}

\* C7 (as stated): with specify="align.phy", model="TESTONLY", nt="AUTO" the
\* tokens start with iqtree -s align.phy and hold -m TESTONLY before -nt AUTO.
C7_AsStated ==
    (HasTokens /\ IsScenario) =>
        /\ SubSeq(tokens, 1, 3) = <<Chars_iqtree, <<"-","s">>, Chars_align_phy>>
        /\ \E a \in PairAt(<<"-","m">>, Chars_TESTONLY) :
              \E b \in PairAt(<<"-","n","t">>, Chars_AUTO) : 3 < a /\ a < b

\* C7 (amended): with specify="align.phy", model="TESTONLY", nt="AUTO" the
\* tokens are iqtree -s align.phy -nt AUTO -m TESTONLY: all three pairs are
\* present, -s before -nt and -nt before -m, which is the declaration order.
C7_ScenarioTokens ==
    (HasTokens /\ IsScenario) =>
        tokens = <<Chars_iqtree, <<"-","s">>, Chars_align_phy,
                   <<"-","n","t">>, Chars_AUTO, <<"-","m">>, Chars_TESTONLY>>

C7_Witness == pc = "Rendered" /\ IsScenario /\ kwargs[1].name = "model"

CliSurfaceOptions == {"specify", "sequencetype", "model", "bb", "nt", "prefix"}

\* the value token of a keyword: str(value), quoted if it is a path with a space
ValueToken(nm, x) ==
    IF \E i \in Matches(parameters, nm) : parameters[i].is_filename
    THEN EscapeFilename(ToStr(x)) ELSE ToStr(x)

\* the flag/value rendering the CLI surface documents for the options in names
SeparateTokens(names) ==
    \A nm \in names : \A f \in FlagsOf(nm) :
        /\ ~Supplied(nm) => \A t \in DOMAIN tokens : ~IsFlag(tokens[t], f)
        /\ \A k \in DOMAIN kwargs :
              kwargs[k].name = nm =>
                  /\ PairAt(f, ValueToken(nm, kwargs[k].value)) # {}
                  /\ \A t \in DOMAIN tokens : ~StartsWith(tokens[t], f \o <<"=">>)

\* C8 (as stated): every option of the documented CLI surface renders a
\* supplied value as the flag token directly followed by the value token,
\* never joined by "=", an option without a value renders no token, and
\* specify="align.phy" alone renders exactly iqtree -s align.phy.
C8_AsStated ==
    HasTokens =>
        /\ SeparateTokens(CliSurfaceOptions)
        /\ kwargs = <<SpecifyArg>> => tokens = <<Chars_iqtree, <<"-","s">>, Chars_align_phy>>

(***************************************************************************)
(* Lifecycle.                                                              *)
(***************************************************************************)
Lifecycle == <<"Unbuilt", "Validated", "Rendered", "Executed", "Completed">>

IsPrefix(a, b) == Len(a) <= Len(b) /\ SubSeq(b, 1, Len(a)) = a

ConstructionErrors == {"MissingRequiredValue", "InvalidValue", "UnknownOption"}

C9_WitnessExecuted == pc = "Completed" /\ Len(trace) = 5

(***************************************************************************)
(* The option table.                                                       *)
(***************************************************************************)
\* C10 (as stated): no two descriptors of the table share a flag or a
\* keyword name, so every supplied keyword names exactly one descriptor:
\* no other descriptor has the name or the flag of a descriptor it names.
C10_AsStated ==
    Built =>
        \A k \in DOMAIN kwargs : \A i \in Matches(parameters, kwargs[k].name) :
            \A j \in DOMAIN parameters :
                (parameters[j].name = parameters[i].name
                    \/ parameters[j].flag = parameters[i].flag) => j = i

(***************************************************************************)
(* Validators that are not predicates.                                     *)
(***************************************************************************)
\* the starting-tree and fixed-user-tree descriptors
TreeDescriptors == {"tree", "usertree"}

\* the exceptions a checker call can end in other than by returning
CheckerExceptions == {"NameError", "TypeError", "AttributeError"}

\* C11 (as stated): for the tree (-t) and usertree (-te) descriptors the
\* validator's guard is always true: every supplied string, one of BIONJ,
\* RANDOM, PARS, PLLPARS or any other, is accepted; construction never fails
\* on that keyword, neither by rejecting the value nor by raising.
C11_AsStated ==
    Built =>
        \A k \in DOMAIN kwargs :
            (/\ kwargs[k].name \in TreeDescriptors
             /\ kwargs[k].value.t = "str"
             /\ EarlierAccepted(k)) => Passed(kwargs[k].name)

\* C12 (as stated): every validator is a callable predicate returning a
\* boolean: a construction that fails before the runner is invoked fails
\* with a missing-value, invalid-value or unknown-option error naming the
\* descriptor or keyword, never with any other kind of failure.
C12_AsStated ==
    (Built /\ pc = "Failed" /\ runnerCalls = 0) =>
        /\ error.kind \in ConstructionErrors
        /\ error.kind \notin CheckerExceptions
====
